---- MODULE Spec2Model ----
(***************************************************************************)
(* kapok/parse: the streaming extraction pipeline of parse.go.             *)
(*                                                                         *)
(* Bytes are modelled as sequences of tokens; every token stands for one   *)
(* fixed byte string ("<page>", "[[", "Category:", " ", ...).  A line, a   *)
(* page block and a text are sequences of tokens.  The regular expressions *)
(* of parse.go are operators over token sequences that compute what the    *)
(* Go regexp engine computes (leftmost match, lazy quantifiers,            *)
(* non-overlapping FindAll).                                               *)
(***************************************************************************)
EXTENDS Naturals, Sequences, FiniteSets, TLC

(***************************************************************************)
(* Bounds of the model.                                                    *)
(***************************************************************************)
\* lines the reader yields before the input is exhausted
MaxLines == 5
\* blocks the block harness feeds into FilterRedirects
MaxBlocks == 3
\* tokens of the texts the extraction harness enumerates exhaustively
MaxText == 4
\* "skipping line" diagnostics counted before the counter saturates
MaxLog == 2

(***************************************************************************)
(* Tokens.                                                                 *)
(***************************************************************************)
SP == " "
TAB == "\t"
PIPE == "|"
LB == "[["
RB == "]]"
CATEGORY == "Category:"
REDIRECT == "#REDIRECT"
OPENPAGE == "<page>"
CLOSEPAGE == "</page>"

\* nothing in hand: no bytes, no page
None == <<"none">>
NoPage == [none |-> TRUE]

\* f applied to i..j of a sequence (empty when j < i)
Slice(s, i, j) == [k \in 1..(j + 1 - i) |-> s[i + k - 1]]

\* indices k of s, from..Len(s), with s[k] = tok
Occurrences(s, tok, from) == {k \in from..Len(s) : s[k] = tok}

Min(S) == CHOOSE m \in S : \A k \in S : m <= k

Contains(s, tok) == \E k \in 1..Len(s) : s[k] = tok

(***************************************************************************)
(* The regular expressions, parse.go:13-17.                                *)
(***************************************************************************)
\* pageStartRegex = ".*<page>.*": the line holds <page> somewhere
pageStartRegex(chunk) == Contains(chunk, OPENPAGE)

\* pageEndRegex = ".*</page>.*"
pageEndRegex(chunk) == Contains(chunk, CLOSEPAGE)

\* redirectRegex = "#REDIRECT[ \t].*?\[\[.*?\]\]": #REDIRECT, one space or
\* tab, anything, "[[", anything, "]]" (a block holds no line break, so
\* "." matches every byte of it)
redirectRegex(b) ==
    \E i \in 1..Len(b) :
        /\ b[i] = REDIRECT
        /\ i + 1 <= Len(b)
        /\ b[i + 1] \in {SP, TAB}
        /\ \E j \in (i + 2)..Len(b) :
              /\ b[j] = LB
              /\ \E k \in (j + 1)..Len(b) : b[k] = RB

\* One match of linkRegex = "\[\[([^|]+?)\]\]" starting at "[[" in i: the
\* end is the first "]]" at least one token further on, provided no pipe
\* lies between; 0 when there is no match starting at i.
LinkEnd(t, i) ==
    LET ends == {j \in (i + 2)..Len(t) :
                    /\ t[j] = RB
                    /\ \A k \in (i + 1)..(j - 1) : t[k] # PIPE}
    IN IF t[i] = LB /\ ends # {} THEN Min(ends) ELSE 0

\* One match of categoryRegex = "\[\[Category:(.+?)\]\]" starting in i:
\* "[[" and "Category:" adjacent, at least one token of target, then the
\* first "]]"; 0 when there is no match starting at i.
CategoryEnd(t, i) ==
    LET ends == {j \in (i + 3)..Len(t) : t[j] = RB}
    IN IF t[i] = LB /\ i + 1 <= Len(t) /\ t[i + 1] = CATEGORY /\ ends # {}
       THEN Min(ends) ELSE 0

\* linkRegex.FindAllStringSubmatch(text, -1), group 1 of every match:
\* leftmost match from pos, then on from behind that match.
RECURSIVE LinkMatchesWithCategoriesFrom(_, _)
LinkMatchesWithCategoriesFrom(t, pos) ==
    LET starts == {i \in pos..Len(t) : LinkEnd(t, i) # 0}
    IN IF starts = {} THEN <<>>
       ELSE LET i == Min(starts)
                j == LinkEnd(t, i)
            IN <<Slice(t, i + 1, j - 1)>> \o LinkMatchesWithCategoriesFrom(t, j + 1)

\* the same scan, skipping the targets that begin with Category:
RECURSIVE LinkMatchesNoCategoriesFrom(_, _)
LinkMatchesNoCategoriesFrom(t, pos) ==
    LET starts == {i \in pos..Len(t) : LinkEnd(t, i) # 0}
    IN IF starts = {} THEN <<>>
       ELSE LET i == Min(starts)
                j == LinkEnd(t, i)
                rest == LinkMatchesNoCategoriesFrom(t, j + 1)
            IN IF t[i + 1] = CATEGORY THEN rest
               ELSE <<Slice(t, i + 1, j - 1)>> \o rest

linkRegexSkippingCategories(t) == LinkMatchesNoCategoriesFrom(t, 1)

linkRegex(t) == LinkMatchesWithCategoriesFrom(t, 1)

\* categoryRegex.FindAllStringSubmatch(text, -1), group 1 of every match
RECURSIVE CategoryMatchesFrom(_, _)
CategoryMatchesFrom(t, pos) ==
    LET starts == {i \in pos..Len(t) : CategoryEnd(t, i) # 0}
    IN IF starts = {} THEN <<>>
       ELSE LET i == Min(starts)
                j == CategoryEnd(t, i)
            IN <<Slice(t, i + 2, j - 1)>> \o CategoryMatchesFrom(t, j + 1)

categoryRegex(t) == CategoryMatchesFrom(t, 1)

\* strings.Trim(s, " \t|"): the leading and trailing tokens of the cutset go
Cutset == {SP, TAB, PIPE}

TrimNothing(s) == s

Trim(s) ==
    LET keep == {k \in 1..Len(s) : s[k] \notin Cutset}
    IN IF keep = {} THEN <<>>
       ELSE Slice(s, Min(keep), CHOOSE m \in keep : \A k \in keep : k <= m)

(***************************************************************************)
(* Page and its decoding.  Page is the record type GetPages fills:         *)
(* Title, Revision.Text, Links, Categories.  xml.Unmarshal is modelled on  *)
(* tokens: tags must nest properly, Title is the character data of         *)
(* page>title and Revision.Text that of page>revision>text (a repeated     *)
(* element overwrites), unknown content is skipped, decoding stops where   *)
(* the root element closes.                                                *)
(***************************************************************************)
NewPage == [Title |-> <<>>, Revision |-> [Text |-> <<>>], Links |-> <<>>, Categories |-> <<>>]

OpenTags == {"<page>", "<title>", "<revision>", "<text>"}
CloseTags == {"</page>", "</title>", "</revision>", "</text>"}

TagName(tok) ==
    CASE tok \in {"<page>", "</page>"} -> "page"
      [] tok \in {"<title>", "</title>"} -> "title"
      [] tok \in {"<revision>", "</revision>"} -> "revision"
      [] tok \in {"<text>", "</text>"} -> "text"

RECURSIVE XmlScan(_, _, _, _)
XmlScan(b, i, stack, p) ==
    IF i > Len(b) THEN [err |-> TRUE, page |-> p]
    ELSE LET tok == b[i] IN
         IF tok \in OpenTags THEN
            LET st == Append(stack, TagName(tok))
                q == IF Len(st) = 2 /\ st[2] = "title" THEN [p EXCEPT !.Title = <<>>]
                     ELSE IF Len(st) = 3 /\ st[2] = "revision" /\ st[3] = "text"
                          THEN [p EXCEPT !.Revision.Text = <<>>]
                     ELSE p
            IN XmlScan(b, i + 1, st, q)
         ELSE IF tok \in CloseTags THEN
            IF stack = <<>> \/ stack[Len(stack)] # TagName(tok)
            THEN [err |-> TRUE, page |-> p]
            ELSE IF Len(stack) = 1 THEN [err |-> FALSE, page |-> p]
            ELSE XmlScan(b, i + 1, SubSeq(stack, 1, Len(stack) - 1), p)
         ELSE
            LET q == IF Len(stack) = 2 /\ stack[2] = "title"
                     THEN [p EXCEPT !.Title = Append(@, tok)]
                     ELSE IF Len(stack) = 3 /\ stack[2] = "revision" /\ stack[3] = "text"
                          THEN [p EXCEPT !.Revision.Text = Append(@, tok)]
                     ELSE p
            IN XmlScan(b, i + 1, stack, q)

\* err := xml.Unmarshal(rawPage, pageStruct)
Unmarshal(rawPage) == XmlScan(rawPage, 1, <<>>, NewPage)

(***************************************************************************)
(* Inputs.                                                                 *)
(***************************************************************************)
PageStart == <<OPENPAGE>>
PageEnd == <<CLOSEPAGE>>
LineA == <<"<title>", "A", "</title>", "<revision>", "<text>",
           LB, "B", RB, LB, CATEGORY, "C", RB, "</text>", "</revision>">>
LineB == <<"<title>", "B", "</title>">>
LineR == <<"<revision>", "<text>", REDIRECT, SP, LB, "A", RB, "</text>", "</revision>">>
LineBad == <<"<title>", "A">>

\* the lines a dump is made of
Lines == {PageStart, PageEnd, LineA, LineR, LineBad}

\* a complete block as GetRawPages builds it from the lines of one page
Wrap(body) == <<OPENPAGE>> \o body \o <<CLOSEPAGE>>

\* "#REDIRECT[[A]]": the directive with nothing between it and the target
LineRTight == <<"<revision>", "<text>", REDIRECT, LB, "A", RB, "</text>", "</revision>">>

Blocks == {Wrap(<<>>), Wrap(LineA), Wrap(LineB), Wrap(LineR), Wrap(LineRTight),
           Wrap(LineBad)}

SeqsUpTo(S, n) == UNION {[1..k -> S] : k \in 0..n}

TextAlphabet == {LB, RB, PIPE, CATEGORY, SP, "A"}

\* "[[A]] is related to [[B]] and [[Category:C]]"
TextRelated == <<LB, "A", RB, SP, "is related to", SP, LB, "B", RB, SP, "and", SP,
                 LB, CATEGORY, "C", RB>>
\* "[[Category: Foo | ]]"
TextFoo == <<LB, CATEGORY, SP, "Foo", SP, PIPE, SP, RB>>
\* "[[A|label]] [[B]] [[B]]"
TextPiped == <<LB, "A", PIPE, "label", RB, SP, LB, "B", RB, SP, LB, "B", RB>>

Texts == SeqsUpTo(TextAlphabet, MaxText) \cup {TextRelated, TextFoo, TextPiped}

(***************************************************************************)
(* State.                                                                  *)
(***************************************************************************)
VARIABLES
    source,     \* what feeds the stages: the reader (Parse, CategorizedParse),
                \* or a producer of blocks or of pages calling the stages alone
    entry,      \* "Parse" or "CategorizedParse"
    pc,         \* pc[s]: where the goroutine of stage s (or the caller) stands
    held,       \* held[s]: the line, block or page stage s has in hand
    closes,     \* closes[c]: how many times channel c has been closed
    page,       \* GetRawPages: the block under construction
    inPage,     \* GetRawPages: inside a page
    scanner,    \* bufio.Scanner and its reader: lines yielded, sticky error,
                \* lines left unread in the input behind a failed read
    logged,     \* "skipping line" diagnostics written (saturates at MaxLog)
    fed,        \* items the block or page producer has offered
    handoff,    \* the line GetRawPages is working on, as it was when
                \* GetChunks handed it over
    enteredAt,  \* blocks sent on rawPages when the page GetRawPages is inside
                \* was entered
    rawSent,    \* the blocks sent on rawPages, in order
    emitted,    \* the pages sent on Parse's output channel, in order
    received    \* the pages the caller has received, in order

vars == <<source, entry, pc, held, closes, page, inPage, scanner, logged, fed,
          handoff, enteredAt, rawSent, emitted, received>>

Stages == {"GetChunks", "GetRawPages", "FilterRedirects", "GetPages", "GetLinks",
           "GetCategories"}
Procs == Stages \cup {"caller"}
Channels == {"chunks", "rawPages", "nonRedirectPages", "somePages", "pages", "out"}

\* the channel each stage receives from and the one it sends on and closes
InOf(s) ==
    CASE s = "GetRawPages" -> "chunks"
      [] s = "FilterRedirects" -> "rawPages"
      [] s = "GetPages" -> "nonRedirectPages"
      [] s = "GetLinks" -> "somePages"
      [] s = "GetCategories" -> "pages"

OutOf(s) ==
    CASE s = "GetChunks" -> "chunks"
      [] s = "GetRawPages" -> "rawPages"
      [] s = "FilterRedirects" -> "nonRedirectPages"
      [] s = "GetPages" -> "somePages"
      [] s = "GetLinks" -> "pages"
      [] s = "GetCategories" -> "out"

\* CategorizedParse hands the caller GetCategories' output, Parse GetLinks'
LastStage == IF entry = "CategorizedParse" THEN "GetCategories" ELSE "GetLinks"

\* the stage whose place a producer of blocks or pages takes
Producer == CASE source = "blocks" -> "GetRawPages"
              [] source = "pages" -> "GetPages"
              [] OTHER -> "GetChunks"

\* where a stage stands once its send has been taken
AfterSend(s) == IF s = Producer /\ source # "reader" THEN "feed" ELSE "recv"

InitCommon ==
    /\ entry \in {"Parse", "CategorizedParse"}
    /\ held = [s \in Procs |->
                 IF s \in {"GetPages", "GetLinks", "GetCategories"} THEN NoPage ELSE None]
    /\ closes = [c \in Channels |-> 0]
    /\ page = <<OPENPAGE>>
    /\ inPage = FALSE
    /\ scanner = [lines |-> 0, err |-> FALSE, unread |-> 0]
    /\ logged = 0
    /\ fed = 0
    /\ handoff = None
    /\ enteredAt = 0
    /\ rawSent = <<>>
    /\ emitted = <<>>
    /\ received = <<>>

\* Parse / CategorizedParse: every stage started (parse.go:21-41)
Init ==
    /\ InitCommon
    /\ source = "reader"
    /\ pc = [s \in Procs |->
                IF s = "GetChunks" THEN "scan"
                ELSE IF s = "GetCategories" /\ entry = "Parse" THEN "off"
                ELSE "recv"]

(***************************************************************************)
(* GetChunks, parse.go:44-62.                                              *)
(***************************************************************************)
\* scanner.Bytes() is a slice of the scanner's buffer, and the next
\* scanner.Scan() may overwrite that buffer.  The channel is unbuffered, so
\* GetChunks scans on as soon as GetRawPages has taken the slice: while
\* GetRawPages still reads it, its bytes either stay or become bytes of the
\* input read later.
Aliased == pc["GetRawPages"] \in {"matchStart", "matchEnd", "append"}

BytesAfterScan(L) ==
    IF Aliased THEN {held["GetRawPages"]} \cup L ELSE {held["GetRawPages"]}

\* scanner.Scan() is true: a line is there; chunks <- scanner.Bytes() blocks
GetChunksScan(L) ==
    /\ pc["GetChunks"] = "scan"
    /\ ~scanner.err
    /\ scanner.lines < MaxLines
    /\ \E line \in L, bytes \in BytesAfterScan(L) :
          held' = [held EXCEPT !["GetChunks"] = line, !["GetRawPages"] = bytes]
    /\ pc' = [pc EXCEPT !["GetChunks"] = "send"]
    /\ scanner' = [scanner EXCEPT !.lines = @ + 1]
    /\ UNCHANGED <<source, entry, closes, page, inPage, logged, fed, handoff,
                   enteredAt, rawSent, emitted, received>>

\* scanner.Scan() is false and scanner.Err() is not nil: the diagnostic is
\* written and the loop goes round.  The scanner keeps its error: every
\* later Scan() is false and Err() returns the same error, whatever the
\* input still holds.
GetChunksFault ==
    /\ pc["GetChunks"] = "scan"
    /\ IF scanner.err
       THEN scanner' = scanner
       ELSE \E n \in 0..(MaxLines - scanner.lines) :
               scanner' = [scanner EXCEPT !.err = TRUE, !.unread = n]
    /\ logged' = IF logged < MaxLog THEN logged + 1 ELSE logged
    /\ UNCHANGED <<source, entry, pc, held, closes, page, inPage, fed, handoff,
                   enteredAt, rawSent, emitted, received>>

\* a line source that wrote the diagnostic at the end of the input too
GetChunksEOFLogging ==
    /\ pc["GetChunks"] = "scan"
    /\ ~scanner.err
    /\ pc' = [pc EXCEPT !["GetChunks"] = "done"]
    /\ closes' = [closes EXCEPT !["chunks"] = @ + 1]
    /\ logged' = IF logged < MaxLog THEN logged + 1 ELSE logged
    /\ UNCHANGED <<source, entry, held, page, inPage, scanner, fed, handoff,
                   enteredAt, rawSent, emitted, received>>

\* scanner.Scan() is false and scanner.Err() is nil: eof, close(chunks)
GetChunksEOF ==
    /\ pc["GetChunks"] = "scan"
    /\ ~scanner.err
    /\ pc' = [pc EXCEPT !["GetChunks"] = "done"]
    /\ closes' = [closes EXCEPT !["chunks"] = @ + 1]
    /\ UNCHANGED <<source, entry, held, page, inPage, scanner, logged, fed, handoff,
                   enteredAt, rawSent, emitted, received>>

(***************************************************************************)
(* GetRawPages, parse.go:66-95.                                            *)
(***************************************************************************)
\* a block assembler that took the next line without waiting for its
\* finished block to be taken
GetRawPagesRecvAhead ==
    /\ pc["GetRawPages"] \in {"recv", "send"}
    /\ pc["GetChunks"] = "send"
    /\ held' = [held EXCEPT !["GetRawPages"] = held["GetChunks"], !["GetChunks"] = None]
    /\ handoff' = held["GetChunks"]
    /\ pc' = [pc EXCEPT !["GetRawPages"] = "matchStart",
                        !["GetChunks"] = IF source = "reader" THEN "scan" ELSE "feed"]
    /\ UNCHANGED <<source, entry, closes, page, inPage, scanner, logged, fed,
                   enteredAt, rawSent, emitted, received>>

\* case chunk, ok := <-chunks, ok true
GetRawPagesRecv ==
    /\ pc["GetRawPages"] = "recv"
    /\ pc["GetChunks"] = "send"
    /\ held' = [held EXCEPT !["GetRawPages"] = held["GetChunks"], !["GetChunks"] = None]
    /\ handoff' = held["GetChunks"]
    /\ pc' = [pc EXCEPT !["GetRawPages"] = "matchStart",
                        !["GetChunks"] = IF source = "reader" THEN "scan" ELSE "feed"]
    /\ UNCHANGED <<source, entry, closes, page, inPage, scanner, logged, fed,
                   enteredAt, rawSent, emitted, received>>

\* a stage that sent its unfinished block before closing
GetRawPagesClosedFlushing ==
    /\ pc["GetRawPages"] = "recv"
    /\ pc["GetChunks"] # "send"
    /\ closes["chunks"] > 0
    /\ IF inPage
       THEN /\ page' = page \o <<CLOSEPAGE>>
            /\ pc' = [pc EXCEPT !["GetRawPages"] = "send"]
            /\ UNCHANGED closes
       ELSE /\ closes' = [closes EXCEPT !["rawPages"] = @ + 1]
            /\ pc' = [pc EXCEPT !["GetRawPages"] = "done"]
            /\ UNCHANGED page
    /\ UNCHANGED <<source, entry, held, inPage, scanner, logged, fed, handoff,
                   enteredAt, rawSent, emitted, received>>

\* ok false: close(pages); return
GetRawPagesClosed ==
    /\ pc["GetRawPages"] = "recv"
    /\ pc["GetChunks"] # "send"
    /\ closes["chunks"] > 0
    /\ closes' = [closes EXCEPT !["rawPages"] = @ + 1]
    /\ pc' = [pc EXCEPT !["GetRawPages"] = "done"]
    /\ UNCHANGED <<source, entry, held, page, inPage, scanner, logged, fed, handoff,
                   enteredAt, rawSent, emitted, received>>

\* a block assembler that took a line with both markers for an end marker
GetRawPagesMatchStartUnlessEnd ==
    /\ pc["GetRawPages"] = "matchStart"
    /\ IF pageStartRegex(held["GetRawPages"]) /\ ~pageEndRegex(held["GetRawPages"])
       THEN /\ inPage' = TRUE
            /\ enteredAt' = IF inPage THEN enteredAt ELSE Len(rawSent)
            /\ pc' = [pc EXCEPT !["GetRawPages"] = "recv"]
            /\ held' = [held EXCEPT !["GetRawPages"] = None]
            /\ handoff' = None
       ELSE /\ pc' = [pc EXCEPT !["GetRawPages"] = "matchEnd"]
            /\ UNCHANGED <<inPage, enteredAt, held, handoff>>
    /\ UNCHANGED <<source, entry, closes, page, scanner, logged, fed,
                   rawSent, emitted, received>>

\* if pageStartRegex.Match(chunk) { inPage = true }
GetRawPagesMatchStart ==
    /\ pc["GetRawPages"] = "matchStart"
    /\ IF pageStartRegex(held["GetRawPages"])
       THEN /\ inPage' = TRUE
            /\ enteredAt' = IF inPage THEN enteredAt ELSE Len(rawSent)
            /\ pc' = [pc EXCEPT !["GetRawPages"] = "recv"]
            /\ held' = [held EXCEPT !["GetRawPages"] = None]
            /\ handoff' = None
       ELSE /\ pc' = [pc EXCEPT !["GetRawPages"] = "matchEnd"]
            /\ UNCHANGED <<inPage, enteredAt, held, handoff>>
    /\ UNCHANGED <<source, entry, closes, page, scanner, logged, fed,
                   rawSent, emitted, received>>

\* else if pageEndRegex.Match(chunk) { if inPage { append "</page>"; pages <-
\* page ... }; inPage = false } else { if inPage { ... } }
GetRawPagesMatchEnd ==
    /\ pc["GetRawPages"] = "matchEnd"
    /\ IF pageEndRegex(held["GetRawPages"])
       THEN IF inPage
            THEN /\ page' = page \o <<CLOSEPAGE>>
                 /\ pc' = [pc EXCEPT !["GetRawPages"] = "send"]
                 /\ held' = [held EXCEPT !["GetRawPages"] = None]
                 /\ handoff' = None
                 /\ UNCHANGED inPage
            ELSE /\ inPage' = FALSE
                 /\ pc' = [pc EXCEPT !["GetRawPages"] = "recv"]
                 /\ held' = [held EXCEPT !["GetRawPages"] = None]
                 /\ handoff' = None
                 /\ UNCHANGED page
       ELSE IF inPage
            THEN /\ pc' = [pc EXCEPT !["GetRawPages"] = "append"]
                 /\ UNCHANGED <<page, inPage, held, handoff>>
            ELSE /\ pc' = [pc EXCEPT !["GetRawPages"] = "recv"]
                 /\ held' = [held EXCEPT !["GetRawPages"] = None]
                 /\ handoff' = None
                 /\ UNCHANGED <<page, inPage>>
    /\ UNCHANGED <<source, entry, closes, scanner, logged, fed, enteredAt,
                   rawSent, emitted, received>>

\* a block assembler that put each line in front of the lines it has
GetRawPagesAppendInFront ==
    /\ pc["GetRawPages"] = "append"
    /\ page' = <<OPENPAGE>> \o held["GetRawPages"] \o Tail(page)
    /\ pc' = [pc EXCEPT !["GetRawPages"] = "recv"]
    /\ held' = [held EXCEPT !["GetRawPages"] = None]
    /\ handoff' = None
    /\ UNCHANGED <<source, entry, closes, inPage, scanner, logged, fed,
                   enteredAt, rawSent, emitted, received>>

\* page = append(page, chunk...)
GetRawPagesAppend ==
    /\ pc["GetRawPages"] = "append"
    /\ page' = page \o held["GetRawPages"]
    /\ pc' = [pc EXCEPT !["GetRawPages"] = "recv"]
    /\ held' = [held EXCEPT !["GetRawPages"] = None]
    /\ handoff' = None
    /\ UNCHANGED <<source, entry, closes, inPage, scanner, logged, fed,
                   enteredAt, rawSent, emitted, received>>

(***************************************************************************)
(* FilterRedirects, parse.go:98-112.                                       *)
(***************************************************************************)
\* if redirectRegex.Find(rawPage) == nil { nonRedirectPages <- rawPage }
ForwardsEverything(rawPage) == TRUE

Forwards(rawPage) == ~redirectRegex(rawPage)

\* case rawPage, ok := <-rawPages, ok true.  The sender is GetRawPages at
\* pages <- page, which goes on with page = []byte("<page>"), inPage = false.
FilterRedirectsRecv ==
    /\ pc["FilterRedirects"] = "recv"
    /\ pc["GetRawPages"] = "send"
    /\ rawSent' = Append(rawSent, page)
    /\ page' = <<OPENPAGE>>
    /\ inPage' = FALSE
    /\ enteredAt' = 0
    /\ IF Forwards(page)
       THEN /\ held' = [held EXCEPT !["FilterRedirects"] = page]
            /\ pc' = [pc EXCEPT !["FilterRedirects"] = "send",
                                !["GetRawPages"] = AfterSend("GetRawPages")]
       ELSE /\ pc' = [pc EXCEPT !["GetRawPages"] = AfterSend("GetRawPages")]
            /\ UNCHANGED held
    /\ UNCHANGED <<source, entry, closes, scanner, logged, fed, handoff,
                   emitted, received>>

\* a stage that returned on a closed input without closing its output
StageReturns(s) ==
    /\ pc[s] = "recv"
    /\ closes[InOf(s)] > 0
    /\ pc' = [pc EXCEPT ![s] = "done"]
    /\ UNCHANGED <<source, entry, held, closes, page, inPage, scanner, logged, fed,
                   handoff, enteredAt, rawSent, emitted, received>>

\* a stage that, its input closed, gave up the send it was blocked on
StageClosedOrGivingUp(s) ==
    /\ pc[s] \in {"recv", "send"}
    /\ closes[InOf(s)] > 0
    /\ closes' = [closes EXCEPT ![OutOf(s)] = @ + 1]
    /\ pc' = [pc EXCEPT ![s] = "done"]
    /\ UNCHANGED <<source, entry, held, page, inPage, scanner, logged, fed, handoff,
                   enteredAt, rawSent, emitted, received>>

\* a stage that, its input closed, closed that channel instead of its own
StageClosesInput(s) ==
    /\ pc[s] = "recv"
    /\ closes[InOf(s)] > 0
    /\ closes' = [closes EXCEPT ![InOf(s)] = @ + 1]
    /\ pc' = [pc EXCEPT ![s] = "done"]
    /\ UNCHANGED <<source, entry, held, page, inPage, scanner, logged, fed, handoff,
                   enteredAt, rawSent, emitted, received>>

\* ok false: close the output channel; return
StageClosed(s) ==
    /\ pc[s] = "recv"
    /\ closes[InOf(s)] > 0
    /\ closes' = [closes EXCEPT ![OutOf(s)] = @ + 1]
    /\ pc' = [pc EXCEPT ![s] = "done"]
    /\ UNCHANGED <<source, entry, held, page, inPage, scanner, logged, fed, handoff,
                   enteredAt, rawSent, emitted, received>>

FilterRedirectsClosed == StageClosed("FilterRedirects")

(***************************************************************************)
(* GetPages, parse.go:115-135.                                             *)
(***************************************************************************)
\* a decoder that hands on the page whatever Unmarshal returned
SendsAnyway(r) == TRUE

\* if err != nil { } else { pages <- pageStruct }
Sends(r) == ~r.err

\* a decoder that gave up at the first block it could not decode
GetPagesRecvStopping ==
    /\ pc["GetPages"] = "recv"
    /\ pc["FilterRedirects"] = "send"
    /\ LET r == Unmarshal(held["FilterRedirects"])
       IN IF ~r.err
          THEN /\ held' = [held EXCEPT !["GetPages"] = r.page, !["FilterRedirects"] = None]
               /\ pc' = [pc EXCEPT !["GetPages"] = "send", !["FilterRedirects"] = "recv"]
               /\ UNCHANGED closes
          ELSE /\ held' = [held EXCEPT !["FilterRedirects"] = None]
               /\ pc' = [pc EXCEPT !["GetPages"] = "done", !["FilterRedirects"] = "recv"]
               /\ closes' = [closes EXCEPT !["somePages"] = @ + 1]
    /\ UNCHANGED <<source, entry, page, inPage, scanner, logged, fed, handoff,
                   enteredAt, rawSent, emitted, received>>

GetPagesRecv ==
    /\ pc["GetPages"] = "recv"
    /\ pc["FilterRedirects"] = "send"
    /\ LET r == Unmarshal(held["FilterRedirects"])
       IN IF Sends(r)
          THEN /\ held' = [held EXCEPT !["GetPages"] = r.page, !["FilterRedirects"] = None]
               /\ pc' = [pc EXCEPT !["GetPages"] = "send", !["FilterRedirects"] = "recv"]
          ELSE /\ held' = [held EXCEPT !["FilterRedirects"] = None]
               /\ pc' = [pc EXCEPT !["FilterRedirects"] = "recv"]
    /\ UNCHANGED <<source, entry, closes, page, inPage, scanner, logged, fed, handoff,
                   enteredAt, rawSent, emitted, received>>

GetPagesClosed == StageClosed("GetPages")

(***************************************************************************)
(* GetLinks, parse.go:139-157.                                             *)
(***************************************************************************)
\* a link stage that left the page as it was
WithoutLinks(p) == p

\* for _, link := range links { page.Links = append(page.Links, link[1]) }
WithLinks(p) == [p EXCEPT !.Links = @ \o linkRegex(p.Revision.Text)]

GetLinksRecv ==
    /\ pc["GetLinks"] = "recv"
    /\ pc["GetPages"] = "send"
    /\ held' = [held EXCEPT !["GetLinks"] = WithLinks(held["GetPages"]),
                            !["GetPages"] = NoPage]
    /\ pc' = [pc EXCEPT !["GetLinks"] = "send", !["GetPages"] = AfterSend("GetPages")]
    /\ UNCHANGED <<source, entry, closes, page, inPage, scanner, logged, fed, handoff,
                   enteredAt, rawSent, emitted, received>>

GetLinksClosed == StageClosed("GetLinks")

(***************************************************************************)
(* GetCategories, parse.go:162-183.                                        *)
(***************************************************************************)
\* cats[i] = strings.Trim(rawCat[1], " \t|")
TrimmedTarget(rawCat) == Trim(rawCat)

\* cats := make([]string, len(rawCats)); ...; page.Categories = cats
WithCategories(p) ==
    LET rawCats == categoryRegex(p.Revision.Text)
    IN [p EXCEPT !.Categories = [i \in 1..Len(rawCats) |-> TrimmedTarget(rawCats[i])]]

GetCategoriesRecv ==
    /\ pc["GetCategories"] = "recv"
    /\ pc["GetLinks"] = "send"
    /\ emitted' = Append(emitted, held["GetLinks"])
    /\ held' = [held EXCEPT !["GetCategories"] = WithCategories(held["GetLinks"]),
                            !["GetLinks"] = NoPage]
    /\ pc' = [pc EXCEPT !["GetCategories"] = "send", !["GetLinks"] = "recv"]
    /\ UNCHANGED <<source, entry, closes, page, inPage, scanner, logged, fed, handoff,
                   enteredAt, rawSent, received>>

GetCategoriesClosed == StageClosed("GetCategories")

(***************************************************************************)
(* The caller: it receives from the channel it gave to Parse or to         *)
(* CategorizedParse until that channel is closed, or stops receiving.      *)
(***************************************************************************)
CallerRecv ==
    /\ pc["caller"] = "recv"
    /\ pc[LastStage] = "send"
    /\ received' = Append(received, held[LastStage])
    /\ emitted' = IF LastStage = "GetLinks" THEN Append(emitted, held["GetLinks"])
                  ELSE emitted
    /\ held' = [held EXCEPT ![LastStage] = NoPage]
    /\ pc' = [pc EXCEPT ![LastStage] = "recv"]
    /\ UNCHANGED <<source, entry, closes, page, inPage, scanner, logged, fed, handoff,
                   enteredAt, rawSent>>

CallerClosed ==
    /\ pc["caller"] = "recv"
    /\ closes[OutOf(LastStage)] > 0
    /\ pc' = [pc EXCEPT !["caller"] = "closed"]
    /\ UNCHANGED <<source, entry, held, closes, page, inPage, scanner, logged, fed,
                   handoff, enteredAt, rawSent, emitted, received>>

CallerAbandons ==
    /\ pc["caller"] = "recv"
    /\ pc' = [pc EXCEPT !["caller"] = "gone"]
    /\ UNCHANGED <<source, entry, held, closes, page, inPage, scanner, logged, fed,
                   handoff, enteredAt, rawSent, emitted, received>>

(***************************************************************************)
(* Parse and CategorizedParse on a reader.                                 *)
(***************************************************************************)
\* a step of a stage, or of the caller receiving
Progress ==
    \/ GetChunksScan(Lines)
    \/ GetChunksEOF
    \/ GetRawPagesRecv
    \/ GetRawPagesClosed
    \/ GetRawPagesMatchStart
    \/ GetRawPagesMatchEnd
    \/ GetRawPagesAppend
    \/ FilterRedirectsRecv
    \/ FilterRedirectsClosed
    \/ GetPagesRecv
    \/ GetPagesClosed
    \/ GetLinksRecv
    \/ GetLinksClosed
    \/ GetCategoriesRecv
    \/ GetCategoriesClosed
    \/ CallerRecv
    \/ CallerClosed

Next ==
    \/ Progress
    \/ GetChunksFault
    \/ CallerAbandons

Spec == Init /\ [][Next]_vars

\* The same pipeline with a caller that keeps receiving, under fair
\* scheduling of the goroutines: as long as some stage can take a step, or
\* the caller can receive, a step is taken.  Nothing makes the reader fail:
\* that step carries no fairness.
FairNext ==
    \/ Progress
    \/ GetChunksFault

FairSpec == Init /\ [][FairNext]_vars /\ WF_vars(Progress)

(***************************************************************************)
(* FilterRedirects, GetPages, GetLinks and GetCategories called on a       *)
(* channel of blocks: the producer sends complete blocks, then closes.     *)
(***************************************************************************)
BlockInit ==
    /\ InitCommon
    /\ source = "blocks"
    /\ pc = [s \in Procs |->
                IF s = "GetChunks" THEN "off"
                ELSE IF s = "GetRawPages" THEN "feed"
                ELSE IF s = "GetCategories" /\ entry = "Parse" THEN "off"
                ELSE "recv"]

BlockSourceOffer ==
    /\ source = "blocks"
    /\ pc["GetRawPages"] = "feed"
    /\ fed < MaxBlocks
    /\ \E b \in Blocks : page' = b
    /\ fed' = fed + 1
    /\ pc' = [pc EXCEPT !["GetRawPages"] = "send"]
    /\ UNCHANGED <<source, entry, held, closes, inPage, scanner, logged, handoff,
                   enteredAt, rawSent, emitted, received>>

BlockSourceClose ==
    /\ source = "blocks"
    /\ pc["GetRawPages"] = "feed"
    /\ closes' = [closes EXCEPT !["rawPages"] = @ + 1]
    /\ pc' = [pc EXCEPT !["GetRawPages"] = "done"]
    /\ UNCHANGED <<source, entry, held, page, inPage, scanner, logged, fed, handoff,
                   enteredAt, rawSent, emitted, received>>

BlockNext ==
    \/ BlockSourceOffer
    \/ BlockSourceClose
    \/ FilterRedirectsRecv
    \/ FilterRedirectsClosed
    \/ GetPagesRecv
    \/ GetPagesClosed
    \/ GetLinksRecv
    \/ GetLinksClosed
    \/ GetCategoriesRecv
    \/ GetCategoriesClosed
    \/ CallerRecv
    \/ CallerClosed

BlockSpec == BlockInit /\ [][BlockNext]_vars

(***************************************************************************)
(* GetLinks and GetCategories called on a channel of pages: the producer   *)
(* sends one page, gets it back enriched from the caller, sends it once    *)
(* more with its text unchanged, then closes.                              *)
(***************************************************************************)
PageInit ==
    /\ InitCommon
    /\ source = "pages"
    /\ pc = [s \in Procs |->
                IF s \in {"GetChunks", "GetRawPages", "FilterRedirects"} THEN "off"
                ELSE IF s = "GetPages" THEN "feed"
                ELSE IF s = "GetCategories" /\ entry = "Parse" THEN "off"
                ELSE "recv"]

PageSourceOffer ==
    /\ source = "pages"
    /\ pc["GetPages"] = "feed"
    /\ fed = 0
    /\ \E text \in Texts :
          held' = [held EXCEPT !["GetPages"] = [NewPage EXCEPT !.Revision.Text = text]]
    /\ fed' = 1
    /\ pc' = [pc EXCEPT !["GetPages"] = "send"]
    /\ UNCHANGED <<source, entry, closes, page, inPage, scanner, logged, handoff,
                   enteredAt, rawSent, emitted, received>>

PageSourceAgain ==
    /\ source = "pages"
    /\ pc["GetPages"] = "feed"
    /\ fed = 1
    /\ Len(received) = 1
    /\ held' = [held EXCEPT !["GetPages"] = received[1]]
    /\ fed' = 2
    /\ pc' = [pc EXCEPT !["GetPages"] = "send"]
    /\ UNCHANGED <<source, entry, closes, page, inPage, scanner, logged, handoff,
                   enteredAt, rawSent, emitted, received>>

PageSourceClose ==
    /\ source = "pages"
    /\ pc["GetPages"] = "feed"
    /\ closes' = [closes EXCEPT !["somePages"] = @ + 1]
    /\ pc' = [pc EXCEPT !["GetPages"] = "done"]
    /\ UNCHANGED <<source, entry, held, page, inPage, scanner, logged, fed, handoff,
                   enteredAt, rawSent, emitted, received>>

PageNext ==
    \/ PageSourceOffer
    \/ PageSourceAgain
    \/ PageSourceClose
    \/ GetLinksRecv
    \/ GetLinksClosed
    \/ GetCategoriesRecv
    \/ GetCategoriesClosed
    \/ CallerRecv
    \/ CallerClosed

PageSpec == PageInit /\ [][PageNext]_vars

(***************************************************************************)
(* GetRawPages and the stages behind it called on a channel of lines: the  *)
(* producer sends lines it does not touch again, then closes.              *)
(***************************************************************************)
\* a page written entirely on one line
LineBoth == <<OPENPAGE, "<title>", "One", "</title>", CLOSEPAGE>>
LineT == <<"<revision>", "<text>", "T", "</text>", "</revision>">>

FedLines == {PageStart, PageEnd, LineB, LineT, LineBoth}

LineInit ==
    /\ InitCommon
    /\ source = "lines"
    /\ pc = [s \in Procs |->
                IF s = "GetChunks" THEN "feed"
                ELSE IF s = "GetCategories" /\ entry = "Parse" THEN "off"
                ELSE "recv"]

LineSourceOffer ==
    /\ source = "lines"
    /\ pc["GetChunks"] = "feed"
    /\ fed < MaxLines
    /\ \E line \in FedLines : held' = [held EXCEPT !["GetChunks"] = line]
    /\ fed' = fed + 1
    /\ pc' = [pc EXCEPT !["GetChunks"] = "send"]
    /\ UNCHANGED <<source, entry, closes, page, inPage, scanner, logged, handoff,
                   enteredAt, rawSent, emitted, received>>

LineSourceClose ==
    /\ source = "lines"
    /\ pc["GetChunks"] = "feed"
    /\ closes' = [closes EXCEPT !["chunks"] = @ + 1]
    /\ pc' = [pc EXCEPT !["GetChunks"] = "done"]
    /\ UNCHANGED <<source, entry, held, page, inPage, scanner, logged, fed, handoff,
                   enteredAt, rawSent, emitted, received>>

LineNext ==
    \/ LineSourceOffer
    \/ LineSourceClose
    \/ GetRawPagesRecv
    \/ GetRawPagesClosed
    \/ GetRawPagesMatchStart
    \/ GetRawPagesMatchEnd
    \/ GetRawPagesAppend
    \/ FilterRedirectsRecv
    \/ FilterRedirectsClosed
    \/ GetPagesRecv
    \/ GetPagesClosed
    \/ GetLinksRecv
    \/ GetLinksClosed
    \/ GetCategoriesRecv
    \/ GetCategoriesClosed
    \/ CallerRecv
    \/ CallerClosed

LineSpec == LineInit /\ [][LineNext]_vars

(***************************************************************************)
(* Properties.                                                             *)
(***************************************************************************)
IsPrefix(a, b) == Len(a) <= Len(b) /\ \A i \in 1..Len(a) : a[i] = b[i]

\* the subsequence of s whose elements satisfy Keep
Select(s, Keep(_)) ==
    LET idx == {i \in 1..Len(s) : Keep(s[i])}
    IN [k \in 1..Cardinality(idx) |->
            s[CHOOSE i \in idx : Cardinality({j \in idx : j <= i}) = k]]

\* an active stage: one that Parse, CategorizedParse or the harness started
Active(s) == pc[s] # "off"

\* a stage with a line, block or page in hand: received and not yet dropped,
\* folded into the block or handed on
Holding(s) == pc[s] \in {"send", "matchStart", "matchEnd", "append"}

\* a block that is no redirect and decodes
Decodable(b) == ~Unmarshal(b).err
Yields(b) == ~redirectRegex(b) /\ Decodable(b)

\* Pi': the page of block b with its links
Linked(b) ==
    LET p == Unmarshal(b).page IN [p EXCEPT !.Links = linkRegex(p.Revision.Text)]

\* P1'..Pn' for the blocks GetRawPages has sent
PagesOf(blocks) ==
    LET kept == Select(blocks, Yields) IN [i \in 1..Len(kept) |-> Linked(kept[i])]

OutputClosed == closes[OutOf(LastStage)] > 0

\* C1 (Ordering): the pages sent on Parse's output channel are at every
\* moment the first of P1'..Pn', the pages of the complete, decodable,
\* non-redirect blocks GetRawPages has sent, in that order, and are all of
\* them once that channel is closed; on Parse the caller has received
\* exactly the pages sent.
Ordering ==
    /\ IsPrefix(emitted, PagesOf(rawSent))
    /\ closes["pages"] > 0 => emitted = PagesOf(rawSent)
    /\ entry = "Parse" => received = emitted

OrderingWitness ==
    /\ source = "reader"
    /\ entry = "Parse"
    /\ pc["caller"] = "closed"
    /\ Len(received) = 2
    /\ received[1] # received[2]
    /\ received[1].Title = <<"A">>

\* C2 (Shutdown propagation): a stage has closed its output only if it has
\* seen its input closed (GetChunks: the end of the input, no read error),
\* has returned and has no item in hand; and once the input has ended
\* without a read error, the caller receiving all along, every stage
\* returns, every channel is closed once and the caller sees its channel
\* closed.
ClosedInOrder ==
    /\ closes["chunks"] > 0 => pc["GetChunks"] = "done" /\ ~scanner.err
    /\ \A s \in Stages \ {"GetChunks"} :
          (Active(s) /\ closes[OutOf(s)] > 0) =>
              /\ closes[InOf(s)] > 0
              /\ pc[s] = "done"
              /\ ~Holding(s)

PipelineDown ==
    /\ \A s \in Stages : Active(s) => pc[s] = "done"
    /\ \A s \in Stages : Active(s) => closes[OutOf(s)] = 1
    /\ pc["caller"] = "closed"

ShutdownPropagation ==
    /\ []ClosedInOrder
    /\ (pc["GetChunks"] = "done") ~> PipelineDown

ShutdownWitness ==
    /\ source = "reader"
    /\ PipelineDown
    /\ entry = "CategorizedParse"
    /\ Len(received) = 2

\* "#REDIRECT [[Target]]" somewhere in b
HasRedirectDirective(b) ==
    \E i \in 1..Len(b) :
        /\ i + 4 <= Len(b)
        /\ b[i] = REDIRECT /\ b[i + 1] = SP /\ b[i + 2] = LB /\ b[i + 4] = RB

NoDirective(b) == ~HasRedirectDirective(b)

\* C3 (Redirect exclusion): FilterRedirects never has a block holding
\* "#REDIRECT [[Target]]" to send, no stage behind it and no caller ever
\* holds a page decoded from such a block, and the caller has received at
\* most as many pages as blocks without the directive were sent.
RedirectExclusion ==
    /\ pc["FilterRedirects"] = "send" => NoDirective(held["FilterRedirects"])
    /\ \A s \in {"GetPages", "GetLinks", "GetCategories"} :
          pc[s] = "send" => NoDirective(held[s].Revision.Text)
    /\ \A i \in 1..Len(received) : NoDirective(received[i].Revision.Text)
    /\ Len(received) <= Len(Select(rawSent, NoDirective))

RedirectWitness ==
    /\ source = "reader"
    /\ pc["caller"] = "closed"
    /\ Len(rawSent) = 2
    /\ HasRedirectDirective(rawSent[1])
    /\ Len(received) = 1

\* C4 (Truncation safety): when the line channel is closed while
\* GetRawPages is inside a page, the blocks sent are those that had been
\* sent when that page was entered, which are the blocks of the dump
\* without its trailing block; and the step on which GetRawPages sees its
\* input closed sends nothing: it closes and returns.
TruncationSafety ==
    /\ []((pc["GetRawPages"] = "done" /\ source = "reader" /\ inPage)
            => Len(rawSent) = enteredAt)
    /\ [][(pc["GetRawPages"] = "recv" /\ closes["chunks"] > 0
            /\ pc'["GetRawPages"] # "recv")
            => (pc'["GetRawPages"] = "done" /\ rawSent' = rawSent
                /\ closes'["rawPages"] = 1)]_vars

TruncationWitness ==
    /\ source = "reader"
    /\ pc["caller"] = "closed"
    /\ inPage
    /\ Len(page) > 1
    /\ Len(rawSent) = 1
    /\ Len(received) = 1

\* The bracketed references of a text, read from left to right: a reference
\* is "[[", a target of at least one token, and the first "]]" behind it; a
\* reference whose target holds a pipe is none (its "[[" is passed over).
\* categories: whether a target that begins with Category: counts.
RECURSIVE BracketTargets(_, _, _)
BracketTargets(t, i, categories) ==
    IF i > Len(t) THEN <<>>
    ELSE LET closers == {j \in (i + 2)..Len(t) : t[j] = RB} IN
         IF t[i] # LB \/ closers = {} THEN BracketTargets(t, i + 1, categories)
         ELSE LET j == Min(closers)
                  target == SubSeq(t, i + 1, j - 1)
              IN IF Contains(target, PIPE) THEN BracketTargets(t, i + 1, categories)
                 ELSE (IF categories \/ target[1] # CATEGORY THEN <<target>> ELSE <<>>)
                      \o BracketTargets(t, j + 1, categories)

\* the page of the first pass through GetLinks, as the caller received it
FirstPass == received[1]

RECURSIVE StripLeft(_)
StripLeft(s) == IF s # <<>> /\ Head(s) \in {SP, TAB, PIPE} THEN StripLeft(Tail(s)) ELSE s

RECURSIVE StripRight(_)
StripRight(s) ==
    IF s # <<>> /\ s[Len(s)] \in {SP, TAB, PIPE}
    THEN StripRight(SubSeq(s, 1, Len(s) - 1)) ELSE s

\* The category references of a text, read from left to right: "[[Category:",
\* a target of at least one token and the first "]]" behind it; of each the
\* target, stripped.
RECURSIVE CategoryTargets(_, _)
CategoryTargets(t, i) ==
    IF i + 1 > Len(t) THEN <<>>
    ELSE LET closers == {j \in (i + 3)..Len(t) : t[j] = RB} IN
         IF t[i] # LB \/ t[i + 1] # CATEGORY \/ closers = {} THEN CategoryTargets(t, i + 1)
         ELSE LET j == Min(closers)
              IN <<StripLeft(StripRight(SubSeq(t, i + 2, j - 1)))>>
                 \o CategoryTargets(t, j + 1)

\* C6 (Category extraction): on CategorizedParse every page the caller has
\* received has as Categories the targets of the category references of its
\* text, in order of appearance, the prefix Category: removed and the
\* surrounding spaces, tabs and pipes trimmed; "[[Category: Foo | ]]" yields
\* <<Foo>>.
CategoryExtraction ==
    entry = "CategorizedParse" =>
        \A i \in 1..Len(received) :
            /\ received[i].Categories = CategoryTargets(received[i].Revision.Text, 1)
            /\ received[i].Revision.Text = TextFoo => received[i].Categories = <<<<"Foo">>>>

CategoryWitness ==
    /\ source = "pages"
    /\ entry = "CategorizedParse"
    /\ Len(received) >= 1
    /\ received[1].Revision.Text = TextFoo
    /\ received[1].Categories = <<<<"Foo">>>>

\* C7 (Idempotence of extraction): a page that has been through GetLinks
\* and GetCategories and goes through them once more, its text unchanged,
\* comes out as it went in: the same Links, the same Categories, no other
\* field changed.
ExtractionIdempotent ==
    (source = "pages" /\ Len(received) = 2) => received[2] = received[1]

Undecodable(b) == Unmarshal(b).err
NonRedirect(b) == ~redirectRegex(b)

\* the page of block b as the caller gets it
Delivered(b) == IF entry = "CategorizedParse" THEN WithCategories(Linked(b)) ELSE Linked(b)

\* C8 (Malformed block isolation): when, of the non-redirect blocks sent on
\* rawPages, exactly one failed to decode, the caller that has seen its
\* channel closed has received the pages of all the others and nothing
\* else, in their order; GetPages returns only on a closed input; and the
\* stages never come to rest before the caller has seen its channel closed.
MalformedIsolation ==
    LET cand == Select(rawSent, NonRedirect)
        good == Select(cand, Decodable)
    IN /\ (pc["caller"] = "closed" /\ Len(Select(cand, Undecodable)) = 1) =>
             /\ Len(received) = Len(cand) - 1
             /\ received = [i \in 1..Len(good) |-> Delivered(good[i])]
       /\ pc["GetPages"] = "done" => closes["nonRedirectPages"] > 0
       /\ (source = "blocks" /\ ~ENABLED BlockNext) => pc["caller"] = "closed"

MalformedWitness ==
    /\ source = "blocks"
    /\ pc["caller"] = "closed"
    /\ Len(rawSent) = 3
    /\ Decodable(rawSent[1]) /\ Undecodable(rawSent[2]) /\ Decodable(rawSent[3])
    /\ Len(received) = 2
    /\ received[1] # received[2]

\* C9 (Read-fault recovery): after a read has failed, as long as the input
\* holds lines behind the failing one, GetChunks back at scanner.Scan() gets
\* the next of them.
ReadFaultRecovery ==
    (pc["GetChunks"] = "scan" /\ scanner.err /\ scanner.unread > 0)
        => ENABLED GetChunksScan(Lines)

EmptyStream == source = "reader" /\ pc["GetChunks"] = "done" /\ scanner.lines = 0

\* C10 (Empty input): on an empty input no diagnostic is written, no block
\* and no page is ever sent, and the caller comes to see its channel closed,
\* on Parse and on CategorizedParse.
EmptyInput ==
    /\ [](EmptyStream =>
            /\ logged = 0
            /\ rawSent = <<>> /\ emitted = <<>> /\ received = <<>>
            /\ \A s \in Stages : ~Holding(s))
    /\ EmptyStream ~> (OutputClosed /\ pc["caller"] = "closed")

EmptyInputWitness ==
    /\ EmptyStream
    /\ entry = "CategorizedParse"
    /\ OutputClosed
    /\ pc["caller"] = "closed"
    /\ received = <<>>

\* C11 (Line Source termination): GetChunks at the head of its loop either
\* has a further line of the input to send or leaves the loop and closes
\* the line channel, after a failed read too; so on a finite input it sends
\* finitely many lines and then closes.
LineSourceTerminates ==
    (source = "reader" /\ pc["GetChunks"] = "scan")
        => ENABLED (GetChunksScan(Lines) \/ GetChunksEOF)

\* C12 (No shared mutable state): while GetRawPages matches a line against
\* the markers and appends it to the block, the bytes it reads are the bytes
\* of the line as GetChunks handed it over.
LineUnchangedAfterHandoff ==
    (source = "reader" /\ pc["GetRawPages"] \in {"matchStart", "matchEnd", "append"})
        => held["GetRawPages"] = handoff

\* the receiver of the channel stage s sends on
Consumer(s) ==
    CASE s = "GetChunks" -> "GetRawPages"
      [] s = "GetRawPages" -> "FilterRedirects"
      [] s = "FilterRedirects" -> "GetPages"
      [] s = "GetPages" -> "GetLinks"
      [] s = "GetLinks" -> IF entry = "CategorizedParse" THEN "GetCategories" ELSE "caller"
      [] s = "GetCategories" -> "caller"

\* stage s has nothing in hand
EmptyHanded(s) ==
    IF s \in {"GetPages", "GetLinks", "GetCategories"} THEN held[s] = NoPage
    ELSE held[s] = None

\* the lines, blocks and pages stage s has received, or made of what it
\* received, and has neither handed on nor dropped; for GetRawPages the
\* line in hand and the block it has under construction or ready to send
ItemsOf(s) ==
    (IF EmptyHanded(s) THEN 0 ELSE 1)
    + (IF s = "GetRawPages" /\ page # <<OPENPAGE>> THEN 1 ELSE 0)

RECURSIVE SumItems(_)
SumItems(S) ==
    IF S = {} THEN 0
    ELSE LET s == CHOOSE x \in S : TRUE IN ItemsOf(s) + SumItems(S \ {s})

InFlight == SumItems(Stages)

NumStages == Cardinality({s \in Stages : Active(s)})

\* C13 (Backpressure bound, as the spec states it): every stage holds at
\* most one item it has received and not yet forwarded or dropped, and the
\* lines, blocks and pages in flight never exceed the number of stages.
BackpressureBound ==
    source = "reader" =>
        /\ \A s \in Stages : ItemsOf(s) <= 1
        /\ InFlight <= NumStages

\* C13 (Backpressure bound, amended): a stage waiting to receive, or done,
\* has nothing in hand; a stage hands its item on only to a consumer that is
\* waiting to receive (the channels hold nothing); every stage but
\* GetRawPages holds at most one item, GetRawPages at most one line and the
\* one block it is assembling; so the lines, blocks and pages in flight
\* never exceed the number of stages plus one.
BackpressureAmended ==
    /\ [](source = "reader" =>
            /\ \A s \in Stages : pc[s] \in {"recv", "scan", "done", "off"} => EmptyHanded(s)
            /\ \A s \in Stages \ {"GetRawPages"} : ItemsOf(s) <= 1
            /\ ItemsOf("GetRawPages") <= 2
            /\ InFlight <= NumStages + 1)
    /\ [][\A s \in Stages :
            (source = "reader" /\ pc[s] = "send" /\ pc'[s] # "send")
                => pc[Consumer(s)] = "recv"]_vars

BackpressureWitness ==
    /\ source = "reader"
    /\ pc["caller"] = "recv"
    /\ pc["GetChunks"] = "send"
    /\ pc["GetRawPages"] = "append"
    /\ Len(page) > 1
    /\ ItemsOf("GetRawPages") = 2
    /\ InFlight = 3

\* the caller has stopped receiving
Abandoned == pc["caller"] = "gone"

\* stage s is at its send and nobody will take the item: the caller is gone
\* and every stage between s and the caller is at its send too
RECURSIVE Blocked(_)
Blocked(s) ==
    /\ pc[s] = "send"
    /\ IF Consumer(s) = "caller" THEN Abandoned ELSE Blocked(Consumer(s))

\* C14 (Abandonment): once the caller has stopped receiving it never
\* receives again and its channel is not closed while the last stage has a
\* page to send; a stage blocked on its send behind stages blocked down to
\* the abandoned output stays blocked with the same item in every later
\* step; and no stage leaves a send otherwise than by its consumer taking
\* the item: none drops the item it holds, none exits with it.
Abandonment ==
    /\ [](Blocked(LastStage) => closes[OutOf(LastStage)] = 0)
    /\ [][Abandoned => (Abandoned' /\ received' = received)]_vars
    /\ [][\A s \in Stages :
            Blocked(s) => (Blocked(s)' /\ held'[s] = held[s]
                           /\ (s = "GetRawPages" => page' = page))]_vars
    /\ [][\A s \in Stages :
            (source = "reader" /\ pc[s] = "send" /\ pc'[s] # "send")
                => (pc'[s] \in {"recv", "scan"} /\ pc[Consumer(s)] = "recv")]_vars

AbandonmentWitness ==
    /\ source = "reader"
    /\ Abandoned
    /\ Blocked("GetPages")
    /\ pc["GetChunks"] = "done"
    /\ closes[OutOf(LastStage)] = 0

\* GetRawPages has a line in hand that it has not finished with
Handling == pc["GetRawPages"] \in {"matchStart", "matchEnd", "append"}

\* C15 (Nested start marker): the step by which GetRawPages, inside a page,
\* finishes with a line that matches the start marker has appended that
\* line to the block, and leaves the state inside-page.
NestedStartAppended ==
    [][(source = "lines" /\ Handling /\ ~Handling' /\ inPage /\ pageStartRegex(handoff))
          => (inPage' /\ page' = page \o handoff)]_vars

\* a line that matches neither marker
Ordinary(line) == ~pageStartRegex(line) /\ ~pageEndRegex(line)

\* the open tag, lines without a marker, the close tag
Assembled(b) ==
    /\ Len(b) >= 2
    /\ b[1] = OPENPAGE
    /\ b[Len(b)] = CLOSEPAGE
    /\ \A k \in 2..(Len(b) - 1) : b[k] \notin {OPENPAGE, CLOSEPAGE}

\* C16 (Block assembly): GetRawPages gets a block ready to send exactly when
\* it finishes with an end-marker line received inside a page, and sends
\* each such block once, so the blocks emitted are as many as those lines;
\* the buffer starts from the bare open tag when a page is entered, grows
\* by exactly the ordinary lines received inside the page, in order,
\* and gets the close tag at the end marker; lines received outside a page
\* and marker lines go into no block; once the block is sent the buffer is
\* the bare open tag again, as it is whenever the state is outside-page.
BlockAssembly ==
    /\ [](source = "lines" =>
            /\ ~inPage => page = <<OPENPAGE>>
            /\ page[1] = OPENPAGE
            /\ pc["GetRawPages"] = "append" => (inPage /\ Ordinary(handoff))
            /\ pc["GetRawPages"] = "send" => Assembled(page)
            /\ \A i \in 1..Len(rawSent) : Assembled(rawSent[i]))
    /\ [][source = "lines" =>
            /\ rawSent' # rawSent =>
                  /\ pc["GetRawPages"] = "send"
                  /\ rawSent' = Append(rawSent, page)
                  /\ page' = <<OPENPAGE>> /\ ~inPage'
            /\ (pc["GetRawPages"] = "send" /\ pc'["GetRawPages"] # "send")
                  => rawSent' = Append(rawSent, page)
            /\ (pc["GetRawPages"] # "send" /\ pc'["GetRawPages"] = "send")
                  <=> (Handling /\ ~Handling' /\ inPage
                       /\ pageEndRegex(handoff) /\ ~pageStartRegex(handoff))
            /\ (pc["GetRawPages"] # "send" /\ pc'["GetRawPages"] = "send")
                  => page' = page \o <<CLOSEPAGE>>
            /\ (Handling /\ ~Handling' /\ inPage /\ Ordinary(handoff))
                  => (page' = page \o handoff /\ inPage')
            /\ (Handling /\ ~Handling' /\ (~inPage \/ pageStartRegex(handoff)))
                  => page' = page
            /\ page' # page => (rawSent' # rawSent \/ (Handling /\ ~Handling'))]_vars

BlockAssemblyWitness ==
    /\ source = "lines"
    /\ fed = 5
    /\ pc["GetRawPages"] = "done"
    /\ rawSent = <<<<OPENPAGE>> \o LineB \o LineT \o <<CLOSEPAGE>>>>

\* a line that matches the start marker and the end marker
BothMarkers(line) == pageStartRegex(line) /\ pageEndRegex(line)

\* C20 (Line carrying both markers): GetRawPages finishes with a line that
\* matches both markers at the start-marker test: the state is inside-page
\* afterwards, the buffer is as it was and no block is made ready or sent;
\* such a line never reaches the end-marker test or the append, so no block
\* ever holds the page written on that one line, and the caller never
\* receives a page made of it alone.
BothMarkersLine ==
    /\ [](source = "lines" =>
            /\ pc["GetRawPages"] \in {"matchEnd", "append"} => ~BothMarkers(handoff)
            /\ \A i \in 1..Len(rawSent) : ~Contains(rawSent[i], "One")
            /\ \A i \in 1..Len(received) : received[i].Title # <<"One">>)
    /\ [][(source = "lines" /\ Handling /\ ~Handling' /\ BothMarkers(handoff))
            => /\ pc["GetRawPages"] = "matchStart"
               /\ pc'["GetRawPages"] = "recv"
               /\ inPage'
               /\ page' = page
               /\ rawSent' = rawSent]_vars

BothMarkersWitness ==
    /\ source = "lines"
    /\ pc["GetRawPages"] = "matchStart"
    /\ BothMarkers(handoff)
    /\ inPage
    /\ page = <<OPENPAGE>> \o LineB
    /\ Len(rawSent) = 1

\* #REDIRECT and, somewhere behind it, a bracketed target
RedirectFollowedByTarget(b) ==
    \E i \in 1..Len(b) :
        /\ b[i] = REDIRECT
        /\ \E j \in (i + 1)..Len(b) :
              /\ b[j] = LB
              /\ \E k \in (j + 2)..Len(b) : b[k] = RB

\* C17 (Redirect filter decision): of every block it receives,
\* FilterRedirects drops the block if and only if it contains #REDIRECT
\* followed by a bracketed target, and hands on every other block
\* unchanged; what it does with a block depends on that block alone.
RedirectDecision ==
    [][(source = "blocks" /\ rawSent' # rawSent) =>
          IF RedirectFollowedByTarget(page)
          THEN pc'["FilterRedirects"] = "recv" /\ held'["FilterRedirects"] = None
          ELSE pc'["FilterRedirects"] = "send" /\ held'["FilterRedirects"] = page]_vars

\* C18 (Stage order in categorized mode, as the spec states it): on
\* CategorizedParse the categories of a page are extracted before its
\* links: the page the link stage has to send has its Categories, and the
\* page the category stage has to send has no Links yet.
CategoriesAheadOfLinks ==
    (source = "reader" /\ entry = "CategorizedParse") =>
        /\ pc["GetLinks"] = "send" =>
              held["GetLinks"].Categories
                  = CategoryTargets(held["GetLinks"].Revision.Text, 1)
        /\ pc["GetCategories"] = "send" => held["GetCategories"].Links = <<>>

\* C18 (Stage order in categorized mode, amended): on CategorizedParse the
\* link stage comes first and the category stage last: the page GetLinks
\* has to send has its Links and no Categories yet, the page GetCategories
\* has to send has both, and what the caller receives is, page by page,
\* what GetLinks sent with the Categories added.
LinksAheadOfCategories ==
    (source = "reader" /\ entry = "CategorizedParse") =>
        /\ LastStage = "GetCategories"
        /\ pc["GetLinks"] = "send" =>
              /\ held["GetLinks"].Links
                    = BracketTargets(held["GetLinks"].Revision.Text, 1, TRUE)
              /\ held["GetLinks"].Categories = <<>>
        /\ pc["GetCategories"] = "send" =>
              /\ held["GetCategories"].Links
                    = BracketTargets(held["GetCategories"].Revision.Text, 1, TRUE)
              /\ held["GetCategories"].Categories
                    = CategoryTargets(held["GetCategories"].Revision.Text, 1)
        /\ Len(received) <= Len(emitted)
        /\ \A i \in 1..Len(received) :
              /\ emitted[i].Categories = <<>>
              /\ received[i] = [emitted[i] EXCEPT !.Categories =
                                   CategoryTargets(emitted[i].Revision.Text, 1)]

StageOrderWitness ==
    /\ source = "reader"
    /\ entry = "CategorizedParse"
    /\ Len(received) = 1
    /\ received[1].Links = <<<<"B">>, <<CATEGORY, "C">>>>
    /\ received[1].Categories = <<<<"C">>>>
    /\ emitted[1].Categories = <<>>

\* C19 (Channel close discipline): no channel is ever closed twice; a
\* channel is closed only by the stage that sends on it, in the step by
\* which that stage, waiting with nothing in hand, returns; a stage that has
\* returned has closed its channel, takes no further step and so neither
\* sends nor closes again; a stage about to send has an open channel; a
\* stage takes an item only from a channel that is not closed; and the
\* caller that has seen the close receives nothing more.
CloseDiscipline ==
    /\ [](source = "reader" =>
            \A s \in Stages :
                /\ closes[OutOf(s)] <= 1
                /\ closes[OutOf(s)] = 1 <=> pc[s] = "done"
                /\ pc[s] = "send" => closes[OutOf(s)] = 0
                /\ ~Active(s) => closes[OutOf(s)] = 0)
    /\ [][source = "reader" =>
            \A s \in Stages :
                /\ closes'[OutOf(s)] # closes[OutOf(s)] =>
                      /\ closes[OutOf(s)] = 0
                      /\ pc[s] \in {"recv", "scan"} /\ pc'[s] = "done"
                      /\ EmptyHanded(s)
                /\ pc[s] = "done" => (pc'[s] = "done" /\ held'[s] = held[s])
                /\ (s # "GetChunks" /\ pc[s] = "recv" /\ pc'[s] \notin {"recv", "done"})
                      => closes[InOf(s)] = 0
                /\ (s # "GetChunks" /\ pc[s] = "recv" /\ pc'[s] = "done")
                      => closes[InOf(s)] = 1]_vars
    /\ [][(source = "reader" /\ pc["caller"] = "closed")
            => (pc'["caller"] = "closed" /\ received' = received)]_vars

CloseDisciplineWitness ==
    /\ source = "reader"
    /\ entry = "CategorizedParse"
    /\ \A c \in Channels : closes[c] = 1
    /\ pc["caller"] = "closed"
    /\ Len(received) = 1

====
